---- MODULE Spec2Model ----
(***************************************************************************)
(* A model of openassetio_traitgen/generators/markdown.py: the markdown    *)
(* generator `generate`, its nested helpers render_template and            *)
(* create_dir_with_path_components, and the two Jinja filters installed by *)
(* _install_custom_filters.                                                *)
(*                                                                         *)
(* The filesystem is a set of directories and a map from file paths to     *)
(* contents.  A content is a sequence of cells (the unit of writing); a    *)
(* path is the sequence of its components.  Every call of generate is run  *)
(* by a caller; each statement of the call that touches the filesystem or  *)
(* the callback is one step, and every step that can raise has a raising   *)
(* alternative.                                                            *)
(***************************************************************************)
EXTENDS Naturals, Sequences, FiniteSets, TLC

VARIABLES
    dirs,        \* the directories that exist
    files,       \* the files that exist: path -> content
    call,        \* per caller: the frame of its generate call
    history,     \* the calls that returned, oldest first
    prev_files,  \* the files as they were when the running call was made
    last_write,  \* per path: the caller and text of the latest f.write
    shared_open, \* per path: the latest open found another caller's handle open
    filter       \* a filter application: the filter, its argument, its result

vars == <<dirs, files, call, history, prev_files, last_write, shared_open, filter>>

----------------------------------------------------------------------------
(* Bounds *)

MaxCalls == 2

MaxPieces == 4

----------------------------------------------------------------------------
(* Inputs *)

Callers == {1, 2}

Absent == [tag |-> "absent", items |-> <<>>]

None == [tag |-> "none", items |-> <<>>]

List(items) == [tag |-> "list", items |-> items]

NamespaceLists == {<<>>, <<"n1">>, <<"n2", "n1">>}

AttrValues == {Absent, None} \cup {List(l) : l \in NamespaceLists}

PackageIds == {"p", "q"}

PackageDeclarations ==
    [id : PackageIds, traits : AttrValues, specifications : AttrValues]

\* The declarations of the runs of several calls: the four ways the two
\* attributes are empty or not, with listings of different lengths.
SmallPackageDeclarations ==
    {[id |-> id, traits |-> a[1], specifications |-> a[2]] :
        id \in PackageIds,
        a \in {<<Absent, List(<<>>)>>,
               <<List(<<"n1">>), None>>,
               <<List(<<"n2", "n1">>), List(<<"n1">>)>>,
               <<List(<<>>), List(<<"n2">>)>>}}

GlobalsMappings == {"g1", "g2"}

SmallGlobalsMappings == {"g1"}

OutputDirectories == {"out"}

KindsReversed == <<"specifications", "traits">>

\* for kind in ("traits", "specifications")
Kinds == <<"traits", "specifications">>

----------------------------------------------------------------------------
(* Paths and the filesystem *)

\* f"{package_declaration.id}-md" and f"{kind}.md": a path component is the
\* pair of its stem and its suffix.
Component(stem, suffix) == <<stem, suffix>>

\* os.path.join of a path and one further component.
OsPathJoin(path, component) == Append(path, component)

\* The path of the output directory, as the caller passes it.
DirPath(output_directory) == <<Component(output_directory, "")>>

\* The subdirectory named without the package's id.
OutputDirPathWithoutId(output_directory, id) ==
    OsPathJoin(DirPath(output_directory), Component("", "-md"))

\* The argument of create_dir_with_path_components as generate builds it.
OutputDirPath(output_directory, id) ==
    OsPathJoin(DirPath(output_directory), Component(id, "-md"))

\* The path render_template is given for a template name.
FilePath(output_dir_path, name) ==
    OsPathJoin(output_dir_path, Component(name, ".md"))

\* os.makedirs(path, exist_ok=True) creates every missing directory on the
\* way to path, the leaf last.
Ancestors(path, k) == {SubSeq(path, 1, i) : i \in 1..k}

\* f.write of a text through a handle opened at offset 0: the text replaces
\* the first Len(text) cells of what the file holds at that moment.
WriteAtStart(old, text) == text \o SubSeq(old, Len(text) + 1, Len(old))

\* The file map with content added to what path holds, as a file opened for
\* appending would have it.
StoreAppending(fs, path, content) ==
    [q \in DOMAIN fs \cup {path} |->
        IF q = path
        THEN (IF path \in DOMAIN fs THEN fs[path] ELSE <<>>) \o content
        ELSE fs[q]]

\* The file map with path bound to content.
Store(fs, path, content) ==
    [q \in DOMAIN fs \cup {path} |-> IF q = path THEN content ELSE fs[q]]

----------------------------------------------------------------------------
(* The pieces of generate *)

\* getattr(package_declaration, kind, None)
GetAttr(package_declaration, kind) ==
    LET value == IF kind = "traits" THEN package_declaration.traits
                 ELSE package_declaration.specifications
    IN  IF value.tag = "absent" THEN None ELSE value

\* `if namespaces is not None:`
TruthyNotNone(value) == value.tag = "list"

\* `if namespaces:`
Truthy(value) == value.tag = "list" /\ value.items # <<>>

\* list.extend
Extend(list, namespaces) == list \o namespaces.items

\* _create_jinja_env: the environment holds the caller's globals and the
\* two filters.
CreateJinjaEnv(env_globals) ==
    [globals |-> env_globals,
     filters |-> {"cleanup_md_string", "to_type_pretty_name"}]

\* env.get_template(f"markdown/{name}.md.in")
TemplateName(name) == <<"markdown/", name, ".md.in">>

\* The variables of a listing render.
ListingVariables(package_declaration, namespaces) ==
    [package |-> package_declaration, namespaces |-> namespaces]

\* The variables of the index render with the two lists exchanged.
IndexVariablesExchanged(package_declaration, trait_namespaces, specification_namespaces) ==
    [package |-> package_declaration,
     trait_namespaces |-> specification_namespaces,
     specification_namespaces |-> trait_namespaces]

\* The variables of the index render.
IndexVariables(package_declaration, trait_namespaces, specification_namespaces) ==
    [package |-> package_declaration,
     trait_namespaces |-> trait_namespaces,
     specification_namespaces |-> specification_namespaces]

\* The namespaces a set of variables lists, in the order a template meets them.
Listed(variables) ==
    IF "namespaces" \in DOMAIN variables
    THEN variables.namespaces.items
    ELSE variables.trait_namespaces \o variables.specification_namespaces

\* template.render(variables): a text determined by the template, the
\* variables and the environment's globals, one heading cell and one cell for
\* each namespace listed.
TemplateRender(template, variables, env) ==
    LET cell(item) == [template |-> template, globals |-> env.globals,
                       variables |-> variables, item |-> item]
    IN  <<cell("")>> \o [i \in 1..Len(Listed(variables)) |-> cell(Listed(variables)[i])]

NoVariables == [package |-> "none"]

\* A caller that is not inside generate.
Idle ==
    [pc |-> "idle",
     package_declaration |-> [id |-> "", traits |-> Absent, specifications |-> Absent],
     argument |-> [id |-> "", traits |-> Absent, specifications |-> Absent],
     globals_ |-> "",
     output_directory |-> "",
     env |-> CreateJinjaEnv(""),
     output_dir_path |-> <<>>,
     trait_namespaces |-> <<>>,
     specification_namespaces |-> <<>>,
     kind |-> 0,
     name |-> "",
     path |-> <<>>,
     template |-> <<>>,
     variables |-> NoVariables,
     text |-> <<>>,
     callbacks |-> <<>>,
     created |-> <<>>,
     written |-> <<>>,
     error |-> "none"]

\* The frame on entry to generate, past line 28.
Entry(package_declaration, globals_, output_directory) ==
    [Idle EXCEPT
        !.pc = "makedirs",
        !.package_declaration = package_declaration,
        !.argument = package_declaration,
        !.globals_ = globals_,
        !.output_directory = output_directory,
        !.env = CreateJinjaEnv(globals_),
        !.path = OutputDirPath(output_directory, package_declaration.id)]

\* What a returned call leaves in the history.
Returned(c, outcome) ==
    [caller |-> c,
     package_declaration |-> call[c].argument,
     globals_ |-> call[c].globals_,
     output_directory |-> call[c].output_directory,
     outcome |-> outcome]

\* An exception is caught and noted, and the call goes on to its callback.
RaiseCaught(c, error) ==
    /\ call' = [call EXCEPT ![c].pc = "callback", ![c].error = error]
    /\ UNCHANGED history

\* An exception leaves generate: nothing catches it.
Raise(c, error) ==
    /\ call' = [call EXCEPT ![c].pc = "failed", ![c].error = error]
    /\ history' = Append(history, Returned(c, "failed"))

----------------------------------------------------------------------------
(* The steps of generate *)

\* Lines 18-28: the call is entered and the Jinja environment built.
Generate(c, package_declaration, globals_, output_directory) ==
    /\ call[c].pc \in {"idle", "done", "failed"}
    /\ call' = [call EXCEPT ![c] = Entry(package_declaration, globals_, output_directory)]
    /\ prev_files' = files
    /\ UNCHANGED <<dirs, files, history, last_write, shared_open, filter>>

\* The directory is made afresh: what it held is removed first.
MakedirsAfresh(c) ==
    /\ call[c].pc = "makedirs"
    /\ LET path == call[c].path
           kept == {q \in DOMAIN files : SubSeq(q, 1, Len(path)) # path}
       IN  /\ dirs' = dirs \cup Ancestors(path, Len(path))
           /\ files' = [q \in kept |-> files[q]]
           /\ call' = [call EXCEPT
                 ![c].pc = "dir_callback",
                 ![c].created = IF path \in dirs THEN @ ELSE Append(@, path)]
    /\ UNCHANGED <<history, prev_files, last_write, shared_open, filter>>

\* Line 49: os.makedirs(path, exist_ok=True).  It creates the missing
\* directories down to the leaf, or raises having created only some of them.
Makedirs(c) ==
    /\ call[c].pc = "makedirs"
    /\ LET path == call[c].path
           made(k) == Ancestors(path, k) \ dirs
       IN  \/ /\ dirs' = dirs \cup Ancestors(path, Len(path))
              /\ call' = [call EXCEPT
                    ![c].pc = "dir_callback",
                    ![c].created = IF path \in dirs THEN @ ELSE Append(@, path)]
              /\ UNCHANGED history
           \/ \E k \in 0..(Len(path) - 1) :
                /\ dirs' = dirs \cup Ancestors(path, k)
                /\ Raise(c, "OSError")
    /\ UNCHANGED <<files, prev_files, last_write, shared_open, filter>>

\* Lines 50-58: the directory is reported, its path returned, and the two
\* lists of the index start empty.
DirCallback(c) ==
    /\ call[c].pc = "dir_callback"
    /\ call' = [call EXCEPT
          ![c].pc = "for_kind",
          ![c].callbacks = Append(@, call[c].path),
          ![c].output_dir_path = call[c].path,
          ![c].trait_namespaces = <<>>,
          ![c].specification_namespaces = <<>>,
          ![c].kind = 1]
    /\ UNCHANGED <<dirs, files, history, prev_files, last_write, shared_open, filter>>

\* Lines 60-75: one turn of `for kind in ("traits", "specifications")`, up
\* to the call of render_template.
ForKind(c) ==
    /\ call[c].pc = "for_kind"
    /\ call[c].kind \in 1..Len(Kinds)
    /\ LET kind == Kinds[call[c].kind]
           namespaces == GetAttr(call[c].package_declaration, kind)
       IN  IF Truthy(namespaces)
           THEN call' = [call EXCEPT
                  ![c].pc = "get_template",
                  ![c].trait_namespaces =
                      IF kind = "traits" THEN Extend(@, namespaces) ELSE @,
                  ![c].specification_namespaces =
                      IF kind = "traits" THEN @ ELSE Extend(@, namespaces),
                  ![c].name = kind,
                  ![c].path = FilePath(call[c].output_dir_path, kind),
                  ![c].variables =
                      ListingVariables(call[c].package_declaration, namespaces)]
           ELSE call' = [call EXCEPT ![c].kind = @ + 1]
    /\ UNCHANGED <<dirs, files, history, prev_files, last_write, shared_open, filter>>

\* Lines 77-85: the call of render_template for the index.
Index(c) ==
    /\ call[c].pc = "for_kind"
    /\ call[c].kind = Len(Kinds) + 1
    /\ call' = [call EXCEPT
          ![c].pc = "get_template",
          ![c].name = "index",
          ![c].path = FilePath(call[c].output_dir_path, "index"),
          ![c].variables =
              IndexVariables(call[c].package_declaration,
                             call[c].trait_namespaces,
                             call[c].specification_namespaces)]
    /\ UNCHANGED <<dirs, files, history, prev_files, last_write, shared_open, filter>>

\* Line 37: env.get_template finds the template or raises TemplateNotFound.
GetTemplate(c) ==
    /\ call[c].pc = "get_template"
    /\ \/ /\ call' = [call EXCEPT
                ![c].pc = "open",
                ![c].template = TemplateName(call[c].name)]
          /\ UNCHANGED history
       \/ Raise(c, "TemplateNotFound")
    /\ UNCHANGED <<dirs, files, prev_files, last_write, shared_open, filter>>

\* A note about a path, replacing the one before.
Noted(notes, path, note) ==
    [q \in DOMAIN notes \cup {path} |-> IF q = path THEN note ELSE notes[q]]

\* Another caller is inside the `with` of line 38 for this path.
HeldByOther(c, path) ==
    \E other \in Callers \ {c} :
        call[other].pc \in {"render", "write"} /\ call[other].path = path

\* Line 38: open(path, "w") creates the file or empties the one there, or
\* raises and touches nothing.
Open(c) ==
    /\ call[c].pc = "open"
    /\ \/ /\ files' = Store(files, call[c].path, <<>>)
          /\ shared_open' = Noted(shared_open, call[c].path, HeldByOther(c, call[c].path))
          /\ call' = [call EXCEPT
                ![c].pc = "render",
                ![c].created = Append(@, call[c].path)]
          /\ UNCHANGED history
       \/ /\ Raise(c, "OSError")
          /\ UNCHANGED <<files, shared_open>>
    /\ UNCHANGED <<dirs, prev_files, last_write, filter>>

\* Line 39, the argument of f.write: template.render(variables) returns the
\* text, or a filter raises and the `with` closes the empty file.
Render(c) ==
    /\ call[c].pc = "render"
    /\ \/ /\ call' = [call EXCEPT
                ![c].pc = "write",
                ![c].text =
                    TemplateRender(call[c].template, call[c].variables, call[c].env)]
          /\ UNCHANGED history
       \/ Raise(c, "TypeError")
    /\ UNCHANGED <<dirs, files, prev_files, last_write, shared_open, filter>>

\* Lines 38-39: f.write and the close of the `with`.  The text lands at the
\* start of the file; a failing write lands a proper prefix of it.
Write(c) ==
    /\ call[c].pc = "write"
    /\ LET path == call[c].path
           text == call[c].text
       IN  \/ /\ files' = Store(files, path, WriteAtStart(files[path], text))
              /\ last_write' = Noted(last_write, path, [caller |-> c, text |-> text])
              /\ call' = [call EXCEPT
                    ![c].pc = "callback",
                    ![c].written = Append(@, path)]
              /\ UNCHANGED history
           \/ \E n \in 0..(Len(text) - 1) :
                /\ files' = Store(files, path,
                                  WriteAtStart(files[path], SubSeq(text, 1, n)))
                /\ Raise(c, "OSError")
                /\ UNCHANGED last_write
    /\ UNCHANGED <<dirs, prev_files, shared_open, filter>>

\* Line 40: creation_callback(path); then the loop goes on, or generate
\* returns after the index.
Callback(c) ==
    /\ call[c].pc = "callback"
    /\ IF call[c].kind <= Len(Kinds)
       THEN /\ call' = [call EXCEPT
                  ![c].pc = "for_kind",
                  ![c].callbacks = Append(@, call[c].path),
                  ![c].kind = @ + 1]
            /\ UNCHANGED history
       ELSE /\ call' = [call EXCEPT
                  ![c].pc = "done",
                  ![c].callbacks = Append(@, call[c].path)]
            /\ history' = Append(history, Returned(c, "done"))
    /\ UNCHANGED <<dirs, files, prev_files, last_write, shared_open, filter>>

\* One step of a call in progress.
Step(c) ==
    \/ Makedirs(c)
    \/ DirCallback(c)
    \/ ForKind(c)
    \/ Index(c)
    \/ GetTemplate(c)
    \/ Open(c)
    \/ Render(c)
    \/ Write(c)
    \/ Callback(c)

----------------------------------------------------------------------------
(* The filters of _install_custom_filters.  A string is the sequence of its
   characters. *)

\* What \s matches.
Whitespace == {" ", "\t", "\n", "\r", "\f"}

\* What [-\*] matches.
Markers == {"-", "*"}

\* The literal pattern of the second substitution.  The backtick and the
\* double quote are written by name.
SeqLiteral ==
    <<"a", "s", "s", "e", "t", " ", "-", " ", "BACKTICK", "QUOTE",
      "s", "e", "q", "0", "0", "3", "QUOTE", "BACKTICK">>

\* The replacement of the second substitution.
SeqReplacement ==
    <<"a", "s", "s", "e", "t", "\n", "-", " ", "BACKTICK", "QUOTE",
      "s", "e", "q", "0", "0", "3", "QUOTE", "BACKTICK">>

\* The longest run of whitespace that starts at position i.
RECURSIVE SpaceRun(_, _)
SpaceRun(string, i) ==
    IF i <= Len(string) /\ string[i] \in Whitespace
    THEN 1 + SpaceRun(string, i + 1)
    ELSE 0

\* The match of (:\s+)([-\*]): at least one whitespace character is asked for.
ListMatchOneOrMore(string, i) ==
    IF i <= Len(string) /\ string[i] = ":"
    THEN LET taken == {k \in 1..SpaceRun(string, i + 1) :
                          /\ i + 1 + k <= Len(string)
                          /\ string[i + 1 + k] \in Markers}
         IN  IF taken = {} THEN 0
             ELSE i + 1 + (CHOOSE k \in taken : \A other \in taken : other <= k)
    ELSE 0

\* A match of (:\s*)([-\*]) tried at position i: the position of the marker
\* it ends on, or 0.  \s* takes the longest run and gives characters back
\* until a marker follows.
ListMatch(string, i) ==
    IF i <= Len(string) /\ string[i] = ":"
    THEN LET taken == {k \in 0..SpaceRun(string, i + 1) :
                          /\ i + 1 + k <= Len(string)
                          /\ string[i + 1 + k] \in Markers}
         IN  IF taken = {} THEN 0
             ELSE i + 1 + (CHOOSE k \in taken : \A other \in taken : other <= k)
    ELSE 0

\* re.sub("(:\s*)([-\*])", r":\n \2", string) from position i on: the scan
\* goes left to right and resumes after each match.
RECURSIVE SubList(_, _)
SubList(string, i) ==
    IF i > Len(string) THEN <<>>
    ELSE LET end == ListMatch(string, i)
         IN  IF end # 0
             THEN <<":", "\n", " ", string[end]>> \o SubList(string, end + 1)
             ELSE <<string[i]>> \o SubList(string, i + 1)

\* The literal pattern matches at position i.
LiteralMatch(string, i) ==
    /\ i + Len(SeqLiteral) - 1 <= Len(string)
    /\ SubSeq(string, i, i + Len(SeqLiteral) - 1) = SeqLiteral

\* re.sub('asset - `"seq003"`', 'asset\n- `"seq003"`', string) from
\* position i on.
RECURSIVE SubLiteral(_, _)
SubLiteral(string, i) ==
    IF i > Len(string) THEN <<>>
    ELSE IF LiteralMatch(string, i)
         THEN SeqReplacement \o SubLiteral(string, i + Len(SeqLiteral))
         ELSE <<string[i]>> \o SubLiteral(string, i + 1)

\* cleanup_md_string
CleanupMdString(string) ==
    LET new_string == SubList(string, 1)
    IN  SubLiteral(new_string, 1)

\* The members of PropertyType.
PropertyTypes == {"STRING", "INTEGER", "FLOAT", "BOOL", "DICT"}

\* Values that are no member of PropertyType.
OtherValues == {"BYTES", "string"}

type_map ==
    [declaration_type \in PropertyTypes |->
        CASE declaration_type = "STRING" -> "string"
          [] declaration_type = "INTEGER" -> "integer"
          [] declaration_type = "FLOAT" -> "float"
          [] declaration_type = "BOOL" -> "boolean"
          [] declaration_type = "DICT" -> "dict"]

\* to_type_pretty_name without its test for DICT.
ToTypePrettyNameByTable(declaration_type) ==
    IF declaration_type \in DOMAIN type_map
    THEN [raised |-> "none", value |-> type_map[declaration_type]]
    ELSE [raised |-> "KeyError", value |-> ""]

\* to_type_pretty_name: what it returns, or what it raises.
ToTypePrettyName(declaration_type) ==
    IF declaration_type = "DICT"
    THEN [raised |-> "TypeError", value |-> ""]
    ELSE IF declaration_type \in DOMAIN type_map
         THEN [raised |-> "none", value |-> type_map[declaration_type]]
         ELSE [raised |-> "KeyError", value |-> ""]

\* The concatenation of a sequence of strings.
RECURSIVE Flatten(_)
Flatten(pieces) ==
    IF pieces = <<>> THEN <<>> ELSE Head(pieces) \o Flatten(Tail(pieces))

\* The pieces the input strings are made of.
Pieces == {<<":">>, <<" ">>, <<"\n">>, <<"-">>, <<"*">>, <<"x">>, SeqLiteral}

\* "Notes: - item one"
Notes ==
    <<"N", "o", "t", "e", "s", ":", " ", "-", " ",
      "i", "t", "e", "m", " ", "o", "n", "e">>

InputStrings ==
    {Notes} \cup
    UNION {{Flatten(pieces) : pieces \in [1..n -> Pieces]} : n \in 0..MaxPieces}

\* A template applies cleanup_md_string to a string.
ApplyCleanupMdString ==
    /\ filter.name = "cleanup_md_string"
    /\ filter.state = "called"
    /\ filter' = [filter EXCEPT
          !.state = "returned",
          !.result = CleanupMdString(filter.argument)]
    /\ UNCHANGED <<dirs, files, call, history, prev_files, last_write, shared_open>>

\* A template applies to_type_pretty_name to a property's type.
ApplyToTypePrettyName ==
    /\ filter.name = "to_type_pretty_name"
    /\ filter.state = "called"
    /\ LET outcome == ToTypePrettyName(filter.argument)
       IN  filter' = [filter EXCEPT
              !.state = IF outcome.raised = "none" THEN "returned" ELSE "raised",
              !.result = outcome]
    /\ UNCHANGED <<dirs, files, call, history, prev_files, last_write, shared_open>>

----------------------------------------------------------------------------
(* Specifications *)

NoFilter == [name |-> "", argument |-> <<>>, state |-> "unused", result |-> <<>>]

NoFiles == [q \in {} |-> <<>>]

Init ==
    /\ dirs = {}
    /\ files = NoFiles
    /\ call = [c \in Callers |-> Idle]
    /\ history = <<>>
    /\ prev_files = NoFiles
    /\ last_write = NoFiles
    /\ shared_open = NoFiles
    /\ filter = NoFilter

\* One caller makes one call, with any package declaration.
OneCall ==
    /\ call[1].pc = "idle"
    /\ \E package_declaration \in PackageDeclarations, globals_ \in GlobalsMappings,
          output_directory \in OutputDirectories :
            Generate(1, package_declaration, globals_, output_directory)

Next == OneCall \/ Step(1)

Spec == Init /\ [][Next]_vars

\* One caller makes call after call.
NextCall ==
    /\ Len(history) < MaxCalls
    /\ \E package_declaration \in SmallPackageDeclarations,
          globals_ \in SmallGlobalsMappings,
          output_directory \in OutputDirectories :
            Generate(1, package_declaration, globals_, output_directory)

NextSeq == NextCall \/ Step(1)

SpecSeq == Init /\ [][NextSeq]_vars

\* Two callers make one call each, at the same time.
ConcurrentCall ==
    \E c \in Callers :
        /\ call[c].pc = "idle"
        /\ \E package_declaration \in SmallPackageDeclarations,
              globals_ \in SmallGlobalsMappings,
              output_directory \in OutputDirectories :
                Generate(c, package_declaration, globals_, output_directory)

NextConc == ConcurrentCall \/ \E c \in Callers : Step(c)

SpecConc == Init /\ [][NextConc]_vars

\* A filter is applied to one argument.
InitFilters ==
    /\ dirs = {}
    /\ files = NoFiles
    /\ call = [c \in Callers |-> Idle]
    /\ history = <<>>
    /\ prev_files = NoFiles
    /\ last_write = NoFiles
    /\ shared_open = NoFiles
    /\ \/ \E string \in InputStrings :
            filter = [name |-> "cleanup_md_string", argument |-> string,
                      state |-> "called", result |-> <<>>]
       \/ \E declaration_type \in PropertyTypes \cup OtherValues :
            filter = [name |-> "to_type_pretty_name", argument |-> declaration_type,
                      state |-> "called", result |-> <<>>]

NextFilters == ApplyCleanupMdString \/ ApplyToTypePrettyName

SpecFilters == InitFilters /\ [][NextFilters]_vars

----------------------------------------------------------------------------
(* The filters' claims, under SpecFilters *)

\* C5: to_type_pretty_name returns "string", "integer", "float" and
\* "boolean" for STRING, INTEGER, FLOAT and BOOL; for DICT it raises the
\* unsupported-type error and does not return "dict"; for a value that is
\* none of the five it raises and returns no name.
C5_PrettyName ==
    (filter.name = "to_type_pretty_name" /\ filter.state # "called") =>
        LET declaration_type == filter.argument
            outcome == filter.result
            returns(pretty) ==
                /\ filter.state = "returned"
                /\ outcome.raised = "none"
                /\ outcome.value = pretty
        IN  /\ declaration_type = "STRING" => returns("string")
            /\ declaration_type = "INTEGER" => returns("integer")
            /\ declaration_type = "FLOAT" => returns("float")
            /\ declaration_type = "BOOL" => returns("boolean")
            /\ declaration_type = "DICT" =>
                  /\ filter.state = "raised"
                  /\ outcome.raised = "TypeError"
                  /\ outcome.value # "dict"
            /\ declaration_type \notin PropertyTypes =>
                  /\ filter.state = "raised"
                  /\ outcome.raised # "none"
                  /\ outcome.value = ""

\* to_type_pretty_name has been applied to DICT and has raised.
C5_Witness ==
    /\ filter.name = "to_type_pretty_name"
    /\ filter.argument = "DICT"
    /\ filter.state = "raised"

\* Position k of string is a marker that a colon and only whitespace precede.
GluedMarker(string, k) ==
    /\ string[k] \in Markers
    /\ \E i \in 1..(k - 1) :
          /\ string[i] = ":"
          /\ \A m \in (i + 1)..(k - 1) : string[m] \in Whitespace

\* Position k of string is whitespace between a colon and its glued marker.
GluedSpace(string, k) ==
    /\ string[k] \in Whitespace
    /\ \E j \in (k + 1)..Len(string) :
          /\ GluedMarker(string, j)
          /\ \A m \in k..(j - 1) : string[m] \in Whitespace
    /\ \E i \in 1..(k - 1) :
          /\ string[i] = ":"
          /\ \A m \in (i + 1)..(k - 1) : string[m] \in Whitespace

\* The first rewriting as the specification words it: each glued marker gets
\* a line feed and a space in front, the whitespace before it goes, and every
\* other character stays.
ListRewritten(string) ==
    Flatten([k \in 1..Len(string) |->
        IF GluedMarker(string, k) THEN <<"\n", " ", string[k]>>
        ELSE IF GluedSpace(string, k) THEN <<>>
        ELSE <<string[k]>>])

\* The literal stands in string from position i on.
LiteralAt(string, i) ==
    /\ i >= 1
    /\ i + Len(SeqLiteral) - 1 <= Len(string)
    /\ \A n \in 1..Len(SeqLiteral) : string[i + n - 1] = SeqLiteral[n]

\* The second rewriting as the specification words it: the space after
\* "asset" of every occurrence of the literal becomes a line feed.
LiteralRewritten(string) ==
    [k \in 1..Len(string) |->
        IF LiteralAt(string, k - 5) THEN "\n" ELSE string[k]]

\* needle occurs in string.
Contains(string, needle) ==
    \E i \in 1..(Len(string) - Len(needle) + 1) :
        SubSeq(string, i, i + Len(needle) - 1) = needle

\* "Notes:\n - item one"
NotesRewritten ==
    <<"N", "o", "t", "e", "s", ":", "\n", " ", "-", " ",
      "i", "t", "e", "m", " ", "o", "n", "e">>

\* C6: cleanup_md_string(s) is s with every colon, whitespace, marker group
\* rewritten to colon, line feed, space, marker, and then every occurrence of
\* the literal rewritten; a string with no match comes back unchanged, and
\* "Notes: - item one" yields "Notes:\n - item one".
C6_Cleanup ==
    (filter.name = "cleanup_md_string" /\ filter.state = "returned") =>
        LET string == filter.argument
            unmatched ==
                /\ \A k \in 1..Len(string) :
                      ~GluedMarker(string, k) /\ ~LiteralAt(string, k)
        IN  /\ filter.result = LiteralRewritten(ListRewritten(string))
            /\ unmatched => filter.result = string
            /\ string = Notes => Contains(filter.result, NotesRewritten)

\* cleanup_md_string has rewritten a string that holds both a glued marker
\* after whitespace and the literal.
C6_Witness ==
    /\ filter.name = "cleanup_md_string"
    /\ filter.state = "returned"
    /\ \E k \in 1..Len(filter.argument) :
          GluedMarker(filter.argument, k) /\ GluedSpace(filter.argument, k - 1)
    /\ \E k \in 1..Len(filter.argument) : LiteralAt(filter.argument, k)
    /\ Len(filter.result) > Len(filter.argument)

----------------------------------------------------------------------------
(* The claims about one call, under Spec *)

\* An attribute that is present and non-empty.
Present(value) == value.tag = "list" /\ Len(value.items) >= 1

\* The namespaces of an attribute, none when it is absent, None or empty.
NamespacesOf(value) == IF Present(value) THEN value.items ELSE <<>>

\* <output_directory>/<id>-md
Subdirectory(output_directory, id) == <<<<output_directory, "">>, <<id, "-md">>>>

\* <output_directory>/<id>-md/<name>.md
OutputFile(output_directory, id, name) ==
    <<<<output_directory, "">>, <<id, "-md">>, <<name, ".md">>>>

\* The elements of a sequence.
Range(seq) == {seq[i] : i \in 1..Len(seq)}

\* How often x stands in seq.
Count(x, seq) == Cardinality({i \in 1..Len(seq) : seq[i] = x})

\* The listings a package declaration calls for, in order, and then the index.
Applicable(package_declaration) ==
    (IF Present(package_declaration.traits) THEN <<"traits">> ELSE <<>>)
    \o (IF Present(package_declaration.specifications)
        THEN <<"specifications">> ELSE <<>>)
    \o <<"index">>

\* The paths of a sequence of template names, for the inputs of a frame.
PathsOf(frame, names) ==
    [i \in 1..Len(names) |->
        OutputFile(frame.output_directory, frame.argument.id, names[i])]

\* The text a template name renders to, for given inputs.
TextOf(package_declaration, globals_, name) ==
    TemplateRender(
        TemplateName(name),
        IF name = "index"
        THEN IndexVariables(package_declaration,
                            NamespacesOf(package_declaration.traits),
                            NamespacesOf(package_declaration.specifications))
        ELSE ListingVariables(package_declaration,
                              GetAttr(package_declaration, name)),
        CreateJinjaEnv(globals_))

\* C1: a call that completes has written traits.md iff traits is present and
\* non-empty, specifications.md iff specifications is present and non-empty,
\* and index.md always, and nothing else.
C1_FilesWritten ==
    call[1].pc = "done" =>
        LET frame == call[1]
            package == frame.argument
            file(name) == OutputFile(frame.output_directory, package.id, name)
            written == Range(frame.written)
        IN  /\ file("traits") \in written <=> Present(package.traits)
            /\ file("specifications") \in written <=> Present(package.specifications)
            /\ file("index") \in written
            /\ written \subseteq {file("traits"), file("specifications"), file("index")}
            /\ written \subseteq DOMAIN files
            /\ (~Present(package.traits) /\ ~Present(package.specifications))
                  => written = {file("index")}

\* A call with non-empty traits and no specifications attribute has completed,
\* having written traits.md and index.md.
C1_Witness ==
    /\ call[1].pc = "done"
    /\ Present(call[1].argument.traits)
    /\ call[1].argument.specifications.tag = "absent"
    /\ Len(call[1].written) = 2

\* C2: a call that completes has called back with the subdirectory, then
\* traits.md if applicable, then specifications.md if applicable, then
\* index.md: 2 + (number of non-empty kinds) calls, no path twice.
C2_CallbackOrder ==
    call[1].pc = "done" =>
        LET frame == call[1]
            package == frame.argument
            names == Applicable(package)
        IN  /\ frame.callbacks =
                  <<Subdirectory(frame.output_directory, package.id)>>
                  \o PathsOf(frame, names)
            /\ Len(frame.callbacks) = 1 + Len(names)
            /\ \A i \in 1..Len(frame.callbacks) :
                  Count(frame.callbacks[i], frame.callbacks) = 1
            /\ frame.callbacks[Len(frame.callbacks)] =
                  OutputFile(frame.output_directory, package.id, "index")

\* A call with both kinds non-empty has completed with four callbacks.
C2_Witness ==
    /\ call[1].pc = "done"
    /\ Present(call[1].argument.traits)
    /\ Present(call[1].argument.specifications)
    /\ Len(call[1].callbacks) = 4

\* C3: when control is back with the caller, after completion or after an
\* error, every subdirectory or file the call created or emptied has been
\* passed to the callback exactly once.
C3_CreatedIsReported ==
    call[1].pc \in {"done", "failed"} =>
        \A i \in 1..Len(call[1].created) :
            Count(call[1].created[i], call[1].callbacks) = 1

\* C4: a listing render gets exactly {package, namespaces} with namespaces
\* the attribute's value; the index render gets exactly {package,
\* trait_namespaces, specification_namespaces}, each a list holding the
\* attribute's namespaces in order, empty when the attribute is absent, None
\* or empty; the package declaration is as the caller passed it.
C4_Variables ==
    call[1].pc \in {"get_template", "open", "render", "write", "callback"} =>
        LET frame == call[1]
            package == frame.argument
            variables == frame.variables
        IN  /\ frame.package_declaration = package
            /\ variables.package = package
            /\ frame.name = "traits" =>
                  /\ DOMAIN variables = {"package", "namespaces"}
                  /\ variables.namespaces = package.traits
            /\ frame.name = "specifications" =>
                  /\ DOMAIN variables = {"package", "namespaces"}
                  /\ variables.namespaces = package.specifications
            /\ frame.name = "index" =>
                  /\ DOMAIN variables =
                        {"package", "trait_namespaces", "specification_namespaces"}
                  /\ variables.trait_namespaces = NamespacesOf(package.traits)
                  /\ variables.specification_namespaces =
                        NamespacesOf(package.specifications)

\* The index is being rendered for a package whose traits are non-empty and
\* whose specifications are None.
C4_Witness ==
    /\ call[1].pc = "render"
    /\ call[1].name = "index"
    /\ Present(call[1].argument.traits)
    /\ call[1].argument.specifications.tag = "none"
    /\ call[1].variables.specification_namespaces = <<>>
    /\ Len(call[1].variables.trait_namespaces) = 2

\* The state a failed call leaves: the error is the caller's, the files it
\* wrote in full are a prefix of the applicable ones and hold their texts,
\* and the callbacks stop with the last of them.
C8_AtFailure ==
    call[1].pc = "failed" =>
        LET frame == call[1]
            package == frame.argument
            names == Applicable(package)
            done == Len(frame.written)
        IN  /\ frame.error \in {"OSError", "TemplateNotFound", "TypeError"}
            /\ done < Len(names)
            /\ frame.written = PathsOf(frame, SubSeq(names, 1, done))
            /\ \A i \in 1..done :
                  /\ frame.written[i] \in DOMAIN files
                  /\ files[frame.written[i]] =
                        TextOf(package, frame.globals_, names[i])
            /\ frame.callbacks \in
                  {<<>>,
                   <<Subdirectory(frame.output_directory, package.id)>>
                   \o frame.written}

\* C8: a failing step aborts the call: the error reaches the caller, no later
\* step runs, and the files written in full by earlier steps stay as they
\* are, a prefix of traits.md, specifications.md, index.md as applicable.
C8_Abort ==
    /\ [](C8_AtFailure /\ (call[1].error # "none" => call[1].pc = "failed"))
    /\ [][call[1].pc = "failed" => UNCHANGED <<dirs, files, call>>]_vars

\* A call has failed on its index after writing both listings.
C8_Witness ==
    /\ call[1].pc = "failed"
    /\ call[1].name = "index"
    /\ Len(call[1].written) = 2
    /\ Len(call[1].callbacks) = 3

----------------------------------------------------------------------------
(* The claims about calls in succession, under SpecSeq *)

\* The last call that returned and the one before it had the same inputs.
SameInputsTwice ==
    /\ Len(history) >= 2
    /\ LET first == history[Len(history) - 1]
           second == history[Len(history)]
       IN  /\ first.outcome = "done"
           /\ second.outcome = "done"
           /\ first.package_declaration = second.package_declaration
           /\ first.globals_ = second.globals_
           /\ first.output_directory = second.output_directory

\* C7: after a second call with the inputs of the first, the files and their
\* contents are those the first call left, and each file the second call
\* wrote holds exactly its text.
C7_Idempotent ==
    (call[1].pc = "done" /\ SameInputsTwice) =>
        LET frame == call[1]
            names == Applicable(frame.argument)
        IN  /\ files = prev_files
            /\ frame.written = PathsOf(frame, names)
            /\ \A i \in 1..Len(names) :
                  files[frame.written[i]] =
                      TextOf(frame.argument, frame.globals_, names[i])

\* A call that writes three files has completed twice in a row.
C7_Witness ==
    /\ call[1].pc = "done"
    /\ SameInputsTwice
    /\ Len(call[1].written) = 3
    /\ prev_files # NoFiles

\* The calls of the history that wrote the file of a template name in a
\* subdirectory.
Writers(output_directory, id, name) ==
    {i \in 1..Len(history) :
        /\ history[i].output_directory = output_directory
        /\ history[i].package_declaration.id = id
        /\ \/ name = "index"
           \/ name = "traits" /\ Present(history[i].package_declaration.traits)
           \/ name = "specifications"
              /\ Present(history[i].package_declaration.specifications)}

\* The greatest element of a non-empty set of numbers.
Latest(set) == CHOOSE i \in set : \A j \in set : j <= i

\* C10: after successful calls only, traits.md (specifications.md) of a
\* subdirectory exists iff some call to it had non-empty traits
\* (specifications) and holds the text of the latest such call, index.md
\* holds the text of the latest call to it, and there are no other files.
C10_Frame ==
    (/\ call[1].pc \in {"idle", "done", "failed"}
     /\ \A i \in 1..Len(history) : history[i].outcome = "done") =>
        /\ \A output_directory \in OutputDirectories, id \in PackageIds,
              name \in {"traits", "specifications", "index"} :
                LET path == OutputFile(output_directory, id, name)
                    writers == Writers(output_directory, id, name)
                IN  /\ path \in DOMAIN files <=> writers # {}
                    /\ writers # {} =>
                          files[path] =
                              TextOf(history[Latest(writers)].package_declaration,
                                     history[Latest(writers)].globals_, name)
        /\ DOMAIN files \subseteq
              {OutputFile(output_directory, id, name) :
                  output_directory \in OutputDirectories, id \in PackageIds,
                  name \in {"traits", "specifications", "index"}}

\* A call with non-empty traits was followed by a call to the same
\* subdirectory with no traits, and traits.md is still there.
C10_Witness ==
    /\ call[1].pc = "done"
    /\ Len(history) = 2
    /\ history[1].outcome = "done"
    /\ history[1].package_declaration.id = history[2].package_declaration.id
    /\ Present(history[1].package_declaration.traits)
    /\ ~Present(history[2].package_declaration.traits)
    /\ OutputFile(history[1].output_directory,
                  history[1].package_declaration.id, "traits") \in DOMAIN files

----------------------------------------------------------------------------
(* The claim about calls at the same time, under SpecConc *)

\* The two callers' subdirectories differ.
DistinctTargets ==
    <<call[1].output_directory, call[1].argument.id>>
        # <<call[2].output_directory, call[2].argument.id>>

\* A completed call has written, and called back, as it does alone.
AsAlone(c) ==
    LET frame == call[c]
        names == Applicable(frame.argument)
    IN  /\ frame.callbacks =
              <<Subdirectory(frame.output_directory, frame.argument.id)>>
              \o PathsOf(frame, names)
        /\ frame.written = PathsOf(frame, names)
        /\ \A i \in 1..Len(names) :
              /\ frame.written[i] \in DOMAIN files
              /\ files[frame.written[i]] =
                    TextOf(frame.argument, frame.globals_, names[i])

\* Calls to distinct subdirectories do not touch each other.
Isolated ==
    \A c \in Callers :
        (call[c].pc = "done" /\ call[3 - c].pc # "idle" /\ DistinctTargets)
            => AsAlone(c)

\* Both calls have completed, in the same subdirectory.
BothDoneInOne ==
    /\ call[1].pc = "done"
    /\ call[2].pc = "done"
    /\ ~DistinctTargets

\* C9 as stated: calls to distinct subdirectories are isolated, and in one
\* subdirectory every file ends with the text of the call that wrote it last.
C9_LastWriterWins ==
    /\ Isolated
    /\ BothDoneInOne =>
          \A path \in DOMAIN last_write : files[path] = last_write[path].text

\* C9 as amended: calls to distinct subdirectories are isolated, and in one
\* subdirectory every file that its last opener opened while the other call
\* did not hold it open ends with the text of the call that wrote it last.
C9_LastWriterUnshared ==
    /\ Isolated
    /\ BothDoneInOne =>
          \A path \in DOMAIN last_write :
              ~shared_open[path] => files[path] = last_write[path].text

\* Both calls reported the one subdirectory; a file they held open together
\* ends with the last writer's text and the rest of the other's, and a file
\* they wrote one after the other ends with the last writer's text.
C9_Witness ==
    /\ BothDoneInOne
    /\ call[1].callbacks[1] = call[2].callbacks[1]
    /\ \E path \in DOMAIN last_write :
          /\ shared_open[path]
          /\ files[path] # last_write[path].text
          /\ SubSeq(files[path], 1, Len(last_write[path].text))
                = last_write[path].text
    /\ \E path \in DOMAIN last_write :
          /\ ~shared_open[path]
          /\ path \in Range(call[1].written) \cap Range(call[2].written)
          /\ files[path] = last_write[path].text

====
